---- MODULE Spec2Model ----
(***************************************************************************)
(* Document ingestion, extraction and session persistence of the           *)
(* AI_Document_Analysis server: the FastAPI handlers of src/api/routers,   *)
(* DocumentService, DocumentProcessor and the SQLAlchemy schema.           *)
(*                                                                         *)
(* The database variables hold COMMITTED rows only.  Every handler is an   *)
(* `async def` without an await between its reads and its commit, so one   *)
(* handler is one action; the background task that an upload schedules     *)
(* runs after the response was sent and is an action of its own.           *)
(*                                                                         *)
(* The specifications share the actions.  Spec starts from an empty        *)
(* database and runs the ingestion handlers and the delete; IngestSpec is  *)
(* the ingestion without the delete, with the fairness of the background   *)
(* runner.  POST /api/analysis cannot commit a session (see                *)
(* analyze_documents), so session rows are only met in a database file     *)
(* that already holds them: StoredSpec starts from such a file, AnswerSpec *)
(* from one whose documents are asked about.  ExtractSpec, TextSpec and    *)
(* ArtifactSpec start from accepted uploads of every format, of text files *)
(* of every content, and of emails and PDFs; UrlSpec runs the URL route    *)
(* for a client that keeps the responses.                                  *)
(***************************************************************************)
EXTENDS Integers, Sequences, FiniteSets, TLC

----------------------------------------------------------------------------
(* Bounds of the model *)

\* Number of uuid4 document ids the upload handlers may draw.
MaxUploads == 2
\* AnalysisSession rows a stored database holds.
NumSessions == 2
\* Longest content of a text file whose lines are counted.
MaxLen == 4

\* Seconds of wall-clock time (datetime.now() at second resolution): two are
\* enough to tell "the same second" from "a later second".
Seconds == {1, 2}

DocIds == 1..MaxUploads
SessIds == {200 + i : i \in 1..NumSessions}
\* An id no Document row and no upload ever carries (a client's wrong id).
UnknownId == MaxUploads + 1
RequestIds == DocIds \cup {UnknownId}

----------------------------------------------------------------------------
(* File names, MIME types, paths *)

TxtName == [stem |-> "a", ext |-> ".txt"]
EmptyName == [stem |-> "", ext |-> ""]
BlankName == [stem |-> " ", ext |-> ""]
UploadNames == {TxtName, EmptyName, BlankName}

DocxMime == "application/vnd.openxmlformats-officedocument.wordprocessingml.document"
PptxMime == "application/vnd.openxmlformats-officedocument.presentationml.presentation"
XlsxMime == "application/vnd.openxmlformats-officedocument.spreadsheetml.sheet"

\* mimetypes.guess_type on the extension, application/octet-stream otherwise.
get_mime_type(name) ==
    CASE name.ext = ".txt" -> "text/plain"
      [] name.ext = ".pdf" -> "application/pdf"
      [] name.ext = ".html" -> "text/html"
      [] name.ext = ".docx" -> DocxMime
      [] name.ext = ".pptx" -> PptxMime
      [] name.ext = ".xlsx" -> XlsxMime
      [] name.ext = ".eml" -> "message/rfc822"
      [] name.ext = ".msg" -> "application/vnd.ms-outlook"
      [] name.ext = ".png" -> "image/png"
      [] OTHER -> "application/octet-stream"

\* os.path.join(upload_folder, f"{timestamp}_{filename}").  The files an
\* extractor writes next to it carry a prefix instead of a timestamp.
UniquePath(ts, name) == [prefix |-> "", ts |-> ts, name |-> name]

\* os.path.exists
Exists(fs, path) == path \in DOMAIN fs

\* os.remove, or a removal by something else: the path leaves the store.
RemoveFile(fs, path) == [p \in DOMAIN fs \ {path} |-> fs[p]]

\* open(path, "wb").write(bytes): creates the file or replaces its bytes.
WriteFile(fs, path, bytes) ==
    [p \in DOMAIN fs \cup {path} |-> IF p = path THEN bytes ELSE fs[p]]

\* The content of a file is a sequence of character codes: line feed,
\* carriage return, and any other number for a character that ends no line.
NL == 10
CR == 13
TAB == 9

\* Bytes are named by the upload that supplied them (the id drawn for it): a
\* file of one character.
BytesOf(d) == <<d>>

----------------------------------------------------------------------------
(* State *)

VARIABLES
    documents,          \* table documents: id -> row
    document_contents,  \* table document_contents: id -> row
    analysis_sessions,  \* table analysis_sessions: id -> row
    association,        \* table document_analysis_association: <<doc, session>>
    queries,            \* table queries: set of rows
    files,              \* the upload folder: path -> bytes
    clock,              \* datetime.now(), in seconds
    nextId,             \* number of uuid4 document ids drawn so far, plus one
    tasks,              \* background tasks added by the upload handlers
    uploadResp,         \* the response sent for each accepted upload id
    answer,             \* what the last POST /api/query did and answered
    urlResp             \* the response a client that keeps it got for its last
                        \* POST /api/documents/url

dbVars == <<documents, document_contents, analysis_sessions, association, queries>>
vars == <<documents, document_contents, analysis_sessions, association, queries,
          files, clock, nextId, tasks, uploadResp, answer, urlResp>>

\* What a handler answers: the HTTP status, the document id in the body (or
\* UnknownId without one) and the error it carries.
Response(code, id, error) == [code |-> code, id |-> id, error |-> error]

----------------------------------------------------------------------------
(* Extraction (DocumentProcessor.process_document) and normalisation *)

\* The text the extractor reads out of the stored bytes: it names the bytes,
\* and an empty file has the empty text.
TextOf(bytes) == bytes
EmptyText == <<>>
\* f"PDF Document: {file_name}\n\n...": the text stored for a PDF without one.
PdfFallbackText == <<0>>

\* open(file_path, "r", encoding="utf-8").read(): text mode with universal
\* newlines, "\r\n" and a lone "\r" are read as "\n".
RECURSIVE ReadText(_)
ReadText(bytes) ==
    IF bytes = <<>> THEN <<>>
    ELSE IF Head(bytes) = CR
    THEN IF Len(bytes) >= 2 /\ bytes[2] = NL
         THEN <<NL>> \o ReadText(SubSeq(bytes, 3, Len(bytes)))
         ELSE <<NL>> \o ReadText(Tail(bytes))
    ELSE <<Head(bytes)>> \o ReadText(Tail(bytes))

\* content.count("\n")
CountNewlines(content) == Cardinality({i \in 1..Len(content) : content[i] = NL})

\* result["line_count"] = content.count("\n") + 1
LineCount(content) == CountNewlines(content) + 1

\* mime_type.startswith(prefix)
StartsWith(str, prefix) ==
    Len(str) >= Len(prefix) /\ SubSeq(str, 1, Len(prefix)) = prefix

\* The if/elif chain of DocumentProcessor.process_document, in its order.
Extractor(mime_type) ==
    IF mime_type = "application/pdf" THEN "pdf"
    ELSE IF mime_type = DocxMime THEN "docx"
    ELSE IF mime_type = PptxMime THEN "pptx"
    ELSE IF mime_type = XlsxMime THEN "xlsx"
    ELSE IF mime_type \in {"message/rfc822", "application/vnd.ms-outlook"} THEN "email"
    ELSE IF StartsWith(mime_type, "image/") THEN "image"
    ELSE IF StartsWith(mime_type, "text/") THEN "text"
    ELSE "generic"

\* What an extraction meets outside the program: whether the optional library
\* of the format was importable, how the parsing of the bytes went ("raises":
\* before a field was assigned, "raises_late": after the first ones), and how
\* the rendering of PDF pages went.
ParseOutcomes(extractor) ==
    CASE extractor = "pdf" -> {"ok", "no_text", "raises", "raises_late"}
      [] extractor = "docx" -> {"ok", "raises", "raises_late"}
      [] extractor \in {"pptx", "xlsx"} -> {"ok", "raises"}
      [] extractor = "email" -> {"ok", "ok_attachment", "raises", "raises_late"}
      [] extractor = "text" -> {"ok", "raises"}
      [] OTHER -> {"ok"}
RenderOutcomes(extractor) ==
    IF extractor = "pdf" THEN {"unavailable", "ok", "raises"} ELSE {"unavailable"}
PlainEnv == [available |-> TRUE, parse |-> "ok", render |-> "unavailable"]
Envs(extractor) ==
    {env \in [available : BOOLEAN, parse : ParseOutcomes(extractor),
              render : RenderOutcomes(extractor)] :
        /\ extractor \notin {"docx", "pptx", "xlsx"} => env.available
        /\ ~env.available => env.parse = "ok"}

\* The result of an extraction: `error` is the top-level "error" key, `base`
\* the six keys of get_file_info, `fields` the structured keys, `errors` the
\* *_error keys, `text` the value the format's text key holds, `artifacts`
\* the paths listed under extracted_images or attachments, `line_count` the
\* value of that key (0 without it).
NotFoundInfo ==
    [error |-> TRUE, base |-> FALSE, mime_type |-> "none", extractor |-> "none",
     fields |-> {}, errors |-> {}, text |-> EmptyText, artifacts |-> {},
     line_count |-> 0]

\* DocumentProcessor.get_file_info of a file that is there.
get_file_info(path, extractor) ==
    [error |-> FALSE, base |-> TRUE, mime_type |-> get_mime_type(path.name),
     extractor |-> extractor, fields |-> {}, errors |-> {}, text |-> EmptyText,
     artifacts |-> {}, line_count |-> 0]

\* `except Exception as e: return {"error": str(e), "file_path": file_path}`
OuterError(path, extractor) ==
    [error |-> TRUE, base |-> FALSE, mime_type |-> "none", extractor |-> extractor,
     fields |-> {}, errors |-> {}, text |-> EmptyText, artifacts |-> {},
     line_count |-> 0]

With(info, fields, errors) ==
    [info EXCEPT !.fields = @ \cup fields, !.errors = @ \cup errors]

\* The files an extractor writes into the upload folder.  The image of the
\* first page of a PDF: f"pdf_page_{i+1}_{os.path.basename(file_path)}.jpg",
\* named after the stored file.  The attachment of an email:
\* f"attachment_{filename}", named after the attachment alone; the emails
\* here carry an attachment att.txt.
AttachmentName == [stem |-> "att", ext |-> ".txt"]
PageImagePath(path) == [path EXCEPT !.prefix = "pdf_page_1_"]
AttachmentPath == [prefix |-> "attachment_", ts |-> 0, name |-> AttachmentName]

\* The text step of process_pdf: page_count is assigned once the reader has
\* opened the file, text_content after every page gave its text.
PdfTextStep(info, bytes, env) ==
    CASE env.parse = "ok" ->
            [With(info, {"page_count", "text_content"}, {}) EXCEPT !.text = TextOf(bytes)]
      [] env.parse = "no_text" -> With(info, {"page_count"}, {})
      [] env.parse = "raises" -> With(info, {}, {"text_extraction_error"})
      [] env.parse = "raises_late" ->
            With(info, {"page_count"}, {"text_extraction_error"})

\* Mutant: a failure of the text step ends the extraction of the PDF.
PdfRenderStepAfterText(info, path, env) ==
    IF "text_extraction_error" \in info.errors THEN info
    ELSE CASE env.render = "unavailable" -> info
           [] env.render = "ok" ->
                 [With(info, {"extracted_images", "num_images_extracted"}, {})
                     EXCEPT !.artifacts = {PageImagePath(path)}]
           [] env.render = "raises" -> With(info, {}, {"image_extraction_error"})

\* The rendering step of process_pdf, under `if PDF2IMAGE_AVAILABLE`.
PdfRenderStep(info, path, env) ==
    CASE env.render = "unavailable" -> info
      [] env.render = "ok" ->
            [With(info, {"extracted_images", "num_images_extracted"}, {})
                EXCEPT !.artifacts = {PageImagePath(path)}]
      [] env.render = "raises" -> With(info, {}, {"image_extraction_error"})

process_pdf(path, bytes, env) ==
    PdfRenderStep(PdfTextStep(get_file_info(path, "pdf"), bytes, env), path, env)

\* Mutant: a failing Word parser loses the base metadata.
process_docx_strict(path, bytes, env) ==
    LET info == get_file_info(path, "docx") IN
    IF ~env.available THEN info
    ELSE IF env.parse = "ok"
    THEN [With(info, {"text_content", "paragraph_count", "tables", "table_count"}, {})
             EXCEPT !.text = TextOf(bytes)]
    ELSE OuterError(path, "docx")

\* text_content and paragraph_count are assigned before the tables are read.
process_docx(path, bytes, env) ==
    LET info == get_file_info(path, "docx") IN
    IF ~env.available THEN info
    ELSE CASE env.parse = "ok" ->
                 [With(info, {"text_content", "paragraph_count", "tables", "table_count"}, {})
                     EXCEPT !.text = TextOf(bytes)]
           [] env.parse = "raises" -> With(info, {}, {"docx_extraction_error"})
           [] env.parse = "raises_late" ->
                 [With(info, {"text_content", "paragraph_count"}, {"docx_extraction_error"})
                     EXCEPT !.text = TextOf(bytes)]

\* What the parsers read out of the stored bytes.  A presentation has two
\* slides, the second without text; result["slides"] is the list of their
\* texts.
SlidesOf(bytes) == <<TextOf(bytes), EmptyText>>

\* A cell of a sheet: a value, or None.
Cell(text) == [none |-> FALSE, text |-> text]
NoneCell == [none |-> TRUE, text |-> EmptyText]

\* A workbook has one sheet, named by the bytes, of one row of a value and
\* an empty cell; result["sheets"] maps sheet names to lists of rows.
SheetsOf(bytes) ==
    <<[name |-> TextOf(bytes), rows |-> << <<Cell(TextOf(bytes)), NoneCell>> >>]>>

process_pptx(path, bytes, env) ==
    LET info == get_file_info(path, "pptx") IN
    IF ~env.available THEN info
    ELSE IF env.parse = "ok"
    THEN [With(info, {"slides", "slide_count"}, {}) EXCEPT !.text = SlidesOf(bytes)]
    ELSE With(info, {}, {"pptx_extraction_error"})

process_xlsx(path, bytes, env) ==
    LET info == get_file_info(path, "xlsx") IN
    IF ~env.available THEN info
    ELSE IF env.parse = "ok"
    THEN [With(info, {"sheets", "sheet_count"}, {}) EXCEPT !.text = SheetsOf(bytes)]
    ELSE With(info, {}, {"xlsx_extraction_error"})

\* headers are assigned before the body is read, body before the attachments.
process_email(path, bytes, env) ==
    LET info == get_file_info(path, "email") IN
    CASE env.parse \in {"ok", "ok_attachment"} ->
            [With(info, {"headers", "body", "attachments", "attachment_count"}, {})
                EXCEPT !.text = TextOf(bytes),
                       !.artifacts = IF env.parse = "ok_attachment"
                                     THEN {AttachmentPath} ELSE {}]
      [] env.parse = "raises" -> With(info, {}, {"email_extraction_error"})
      [] env.parse = "raises_late" ->
            With(info, {"headers"}, {"email_extraction_error"})

process_image(path, bytes, env) == get_file_info(path, "image")

\* The read has no try block of its own: what it raises reaches the outer
\* except, which returns the error without the file information.
process_text(path, bytes, env) ==
    IF env.parse = "ok"
    THEN LET content == ReadText(bytes) IN
         [With(get_file_info(path, "text"), {"text_content", "line_count"}, {})
             EXCEPT !.text = content, !.line_count = LineCount(content)]
    ELSE OuterError(path, "text")

\* The extractor that runs on a stored path.  self.get_mime_type(file_path):
\* the type the dispatch looks at is guessed from the path; the processor is
\* not given the type the task carries.
ExtractorOf(path) == Extractor(get_mime_type(path.name))

\* DocumentProcessor.process_document: a top-level error and nothing else when
\* the file is gone, otherwise the result of the extractor of the MIME type.
ExtractDocument(fs, path, env) ==
    IF ~Exists(fs, path) THEN NotFoundInfo
    ELSE LET extractor == ExtractorOf(path)
             bytes == fs[path]
         IN CASE extractor = "pdf" -> process_pdf(path, bytes, env)
              [] extractor = "docx" -> process_docx(path, bytes, env)
              [] extractor = "pptx" -> process_pptx(path, bytes, env)
              [] extractor = "xlsx" -> process_xlsx(path, bytes, env)
              [] extractor = "email" -> process_email(path, bytes, env)
              [] extractor = "image" -> process_image(path, bytes, env)
              [] extractor = "text" -> process_text(path, bytes, env)
              [] OTHER -> get_file_info(path, "generic")

\* The files an extraction leaves in the upload folder: what it wrote under
\* the paths its result lists.
ExtractFiles(fs, path, info) ==
    IF info.artifacts = {} THEN fs
    ELSE [p \in DOMAIN fs \cup info.artifacts |->
            IF p \in info.artifacts THEN fs[path] ELSE fs[p]]

\* sep.join(texts)
RECURSIVE Join(_, _)
Join(texts, sep) ==
    IF texts = <<>> THEN <<>>
    ELSE IF Len(texts) = 1 THEN texts[1]
    ELSE texts[1] \o sep \o Join(Tail(texts), sep)

BlankLine == <<NL, NL>>

\* The literal "Sheet: " that opens the text of a sheet.
SheetPrefix == <<83>>

\* str(cell) if cell is not None else ""
CellText(cell) == IF cell.none THEN EmptyText ELSE cell.text

\* "\t".join([...]) + "\n" appended for every row.
RECURSIVE RowsText(_)
RowsText(rows) ==
    IF rows = <<>> THEN <<>>
    ELSE Join([i \in 1..Len(rows[1]) |-> CellText(rows[1][i])], <<TAB>>) \o <<NL>>
         \o RowsText(Tail(rows))

\* f"Sheet: {sheet_name}\n" followed by the rows.
SheetText(sheet) == SheetPrefix \o sheet.name \o <<NL>> \o RowsText(sheet.rows)

\* Mutant: a PDF is given its fallback note before its text is looked at.
NormalizeTextPdfFirst(info) ==
    IF info.base /\ info.mime_type = "application/pdf" THEN PdfFallbackText
    ELSE IF "text_content" \in info.fields THEN info.text
    ELSE IF "content" \in info.fields THEN info.text
    ELSE IF "slides" \in info.fields THEN Join(info.text, BlankLine)
    ELSE IF "sheets" \in info.fields
    THEN Join([i \in 1..Len(info.text) |-> SheetText(info.text[i])], BlankLine)
    ELSE IF "body" \in info.fields THEN info.text
    ELSE EmptyText

\* The if/elif chain of DocumentService.process_document that flattens the
\* extraction result into extracted_text ("" when no branch applies).  No
\* extractor assigns the key "content".
NormalizeText(info) ==
    IF "text_content" \in info.fields THEN info.text
    ELSE IF "content" \in info.fields THEN info.text
    ELSE IF "slides" \in info.fields THEN Join(info.text, BlankLine)
    ELSE IF "sheets" \in info.fields
    THEN Join([i \in 1..Len(info.text) |-> SheetText(info.text[i])], BlankLine)
    ELSE IF "body" \in info.fields THEN info.text
    ELSE IF info.base /\ info.mime_type = "application/pdf" THEN PdfFallbackText
    ELSE EmptyText

\* No POST /api/documents/url was answered yet.
NoUrlResponse == Response(0, UnknownId, "none")

\* No POST /api/query was made yet.
NoAnswer ==
    [code |-> 0, raised |-> "none", lookups |-> <<>>, calls |-> 0,
     apology |-> FALSE, sources |-> <<>>]

----------------------------------------------------------------------------
(* Initial states *)

\* An empty database and an empty upload folder.
Init ==
    /\ documents = <<>>
    /\ document_contents = <<>>
    /\ analysis_sessions = <<>>
    /\ association = {}
    /\ queries = {}
    /\ files = <<>>
    /\ clock = 1
    /\ nextId = 1
    /\ tasks = <<>>
    /\ uploadResp = <<>>
    /\ answer = NoAnswer
    /\ urlResp = NoUrlResponse

----------------------------------------------------------------------------
(* Time *)

Tick ==
    /\ clock + 1 \in Seconds
    /\ clock' = clock + 1
    /\ UNCHANGED <<dbVars, files, nextId, tasks, uploadResp, answer, urlResp>>

----------------------------------------------------------------------------
(* File store: DocumentProcessor.save_uploaded_file *)

SaveOutcomes == {"ok", "raises"}

\* `not filename or filename.strip() == ''`
IsEmptyFilename(name) == name.stem = "" \/ name.stem = " "

\* Mutant: the filename is not looked at before the file is written.
save_uploaded_file_unchecked(fs, bytes, name, now, outcome) ==
    LET file_path == UniquePath(now, name) IN
    IF outcome = "ok"
    THEN [ok |-> TRUE, error |-> "none", file_path |-> file_path,
          fs |-> WriteFile(fs, file_path, bytes)]
    ELSE [ok |-> FALSE, error |-> "save_failed", file_path |-> file_path, fs |-> fs]

\* Whether the call returned a path, the path, and the file store afterwards.
\* The ValueError of an empty filename is raised before anything is written,
\* and so is the error of an open() that fails.
save_uploaded_file(fs, bytes, name, now, outcome) ==
    LET file_path == UniquePath(now, name) IN
    IF IsEmptyFilename(name)
    THEN [ok |-> FALSE, error |-> "empty_filename", file_path |-> file_path, fs |-> fs]
    ELSE IF outcome = "ok"
    THEN [ok |-> TRUE, error |-> "none", file_path |-> file_path,
          fs |-> WriteFile(fs, file_path, bytes)]
    ELSE [ok |-> FALSE, error |-> "save_failed", file_path |-> file_path, fs |-> fs]

----------------------------------------------------------------------------
(* POST /api/documents/upload *)

PendingTask(path, name, mime) ==
    [state |-> "pending", file_path |-> path, file_name |-> name, mime_type |-> mime]

UploadedResponse == [code |-> 200, success |-> TRUE, status |-> "uploaded"]

\* The response of upload_document: 200 with the id, or 500 with the error of
\* the save.
upload_response(fs, document_id, name, now, outcome) ==
    LET saved == save_uploaded_file(fs, BytesOf(document_id), name, now, outcome) IN
    IF saved.ok THEN Response(200, document_id, "none")
    ELSE Response(500, UnknownId, saved.error)

\* Mutant: the handler awaits the processing instead of scheduling it.
add_task_awaited(ts, d, path, name, mime) ==
    ts @@ (d :> [PendingTask(path, name, mime) EXCEPT !.state = "success"])

\* background_tasks.add_task(document_service.process_document, ...)
add_task(ts, d, path, name, mime) == ts @@ (d :> PendingTask(path, name, mime))

\* The id is drawn first, so a failed save uses one up.
upload_document(name, outcome) ==
    /\ nextId <= MaxUploads
    /\ LET document_id == nextId
           saved == save_uploaded_file(files, BytesOf(document_id), name, clock, outcome)
       IN /\ nextId' = nextId + 1
          /\ files' = saved.fs
          /\ IF saved.ok
             THEN /\ tasks' = add_task(tasks, document_id, saved.file_path, name,
                                       get_mime_type(name))
                  /\ uploadResp' = uploadResp @@ (document_id :> UploadedResponse)
             ELSE UNCHANGED <<tasks, uploadResp>>
    /\ UNCHANGED <<dbVars, clock, answer, urlResp>>

----------------------------------------------------------------------------
(* POST /api/documents/url *)

\* A URL as urlparse sees it, and what the server answers to the GET.
Urls == [scheme : BOOLEAN, netloc : BOOLEAN, base : {TxtName, EmptyName}]
\* response.headers.get('Content-Type', 'text/html')
ContentTypes == {"text/html"}
Replies == [ok : BOOLEAN, cd : {BlankName, EmptyName}, content_type : ContentTypes]

\* Mutant: a URL with a scheme passes, with or without a host.
is_valid_url_scheme_only(url) == url.scheme

\* all([result.scheme, result.netloc])
is_valid_url(url) == url.scheme /\ url.netloc

\* download_from_url: the Content-Disposition filename, else the basename of
\* the URL path, else {domain}_{timestamp}.html.  EmptyName in reply.cd stands
\* for a missing header or one the regular expression does not match.
DownloadName(url, reply, now) ==
    IF reply.cd # EmptyName THEN reply.cd
    ELSE IF url.base # EmptyName THEN url.base
    ELSE [stem |-> "host_" \o ToString(now), ext |-> ".html"]

\* The response of the route.  UrlRequest.url is an HttpUrl: a URL without a
\* scheme or a host fails the validation of the request (422) before the
\* handler runs, and DocumentService.process_url, called with one, returns
\* "Invalid URL format".  Past that, 400 with the error the service returns
\* for a failed download or a failed save; 200 with the id otherwise.
url_response(fs, document_id, url, reply, now, outcome) ==
    IF ~is_valid_url(url) THEN Response(422, UnknownId, "invalid_url")
    ELSE IF ~reply.ok THEN Response(400, UnknownId, "download_failed")
    ELSE LET saved == save_uploaded_file(fs, BytesOf(document_id),
                                         DownloadName(url, reply, now), now, outcome)
         IN IF saved.ok THEN Response(200, document_id, "none")
            ELSE Response(400, UnknownId, saved.error)

\* The id is drawn only after the file was saved.
process_url(url, reply, outcome) ==
    /\ nextId <= MaxUploads
    /\ IF ~is_valid_url(url) \/ ~reply.ok
       THEN UNCHANGED <<files, nextId, tasks, uploadResp>>
       ELSE LET filename == DownloadName(url, reply, clock)
                document_id == nextId
                saved == save_uploaded_file(files, BytesOf(document_id), filename,
                                            clock, outcome)
            IN /\ files' = saved.fs
               /\ IF saved.ok
                  THEN /\ nextId' = nextId + 1
                       /\ tasks' = add_task(tasks, document_id, saved.file_path,
                                            filename, reply.content_type)
                       /\ uploadResp' = uploadResp @@ (document_id :> UploadedResponse)
                  ELSE UNCHANGED <<nextId, tasks, uploadResp>>
    /\ UNCHANGED <<dbVars, clock, answer>>

----------------------------------------------------------------------------
(* Background task: DocumentService.process_document *)

\* Mutant: a successful extraction marks the document analyzed.
DocumentRowAnalyzed(task, info) ==
    [file_name |-> task.file_name, file_path |-> task.file_path,
     mime_type |-> task.mime_type,
     doc_metadata |-> info, status |-> "analyzed"]

\* Mutant: an extraction result with a top-level error marks the document.
DocumentRowFailedExtraction(task, info) ==
    [file_name |-> task.file_name, file_path |-> task.file_path,
     mime_type |-> task.mime_type,
     doc_metadata |-> info, status |-> IF info.error THEN "error" ELSE "uploaded"]

DocumentRow(task, info) ==
    [file_name |-> task.file_name, file_path |-> task.file_path,
     mime_type |-> task.mime_type,
     doc_metadata |-> info, status |-> "uploaded"]

ContentRow(text) == [extracted_text |-> text]

\* self.db.add(document); self.db.add(document_content); self.db.commit():
\* both INSERTs belong to one transaction.  It commits unless the store
\* refuses it or a primary key is taken.
Committed(d, commitOk) ==
    commitOk /\ d \notin DOMAIN documents /\ d \notin DOMAIN document_contents

\* Mutant: no rollback, the Document row flushed before the failure stays.
CommitDocumentNoRollback(d, docRow, contentRow, commitOk) ==
    IF Committed(d, commitOk)
    THEN /\ documents' = documents @@ (d :> docRow)
         /\ document_contents' = document_contents @@ (d :> contentRow)
         /\ UNCHANGED <<analysis_sessions, association, queries>>
    ELSE /\ documents' = documents @@ (d :> docRow)
         /\ UNCHANGED <<document_contents, analysis_sessions, association, queries>>

\* Mutant: the content row is never added to the session.
CommitDocumentOnly(d, docRow, contentRow, commitOk) ==
    IF Committed(d, commitOk)
    THEN /\ documents' = documents @@ (d :> docRow)
         /\ UNCHANGED <<document_contents, analysis_sessions, association, queries>>
    ELSE UNCHANGED dbVars

\* Mutant: every task works on one shared session, and the rollback of a
\* failed task discards the rows the other tasks added through it.
CommitDocumentSharedSession(d, docRow, contentRow, commitOk) ==
    IF Committed(d, commitOk)
    THEN /\ documents' = documents @@ (d :> docRow)
         /\ document_contents' = document_contents @@ (d :> contentRow)
         /\ UNCHANGED <<analysis_sessions, association, queries>>
    ELSE /\ documents' = <<>>
         /\ document_contents' = <<>>
         /\ UNCHANGED <<analysis_sessions, association, queries>>

\* The tables after the try block: both rows, or (self.db.rollback() in the
\* except branch) the tables as they were.  The session is the one of the
\* DocumentService of the request (get_db_session() in __init__): it holds
\* the rows of this task and no others.
CommitDocument(d, docRow, contentRow, commitOk) ==
    IF Committed(d, commitOk)
    THEN /\ documents' = documents @@ (d :> docRow)
         /\ document_contents' = document_contents @@ (d :> contentRow)
         /\ UNCHANGED <<analysis_sessions, association, queries>>
    ELSE UNCHANGED dbVars

SetTaskState(d, st) == [tasks EXCEPT ![d].state = st]

\* Mutant: a missing file is recorded as a Document row with status error.
FileNotFoundRecorded(d) ==
    /\ tasks' = SetTaskState(d, "file_not_found")
    /\ documents' = documents @@
          (d :> [file_name |-> tasks[d].file_name, file_path |-> tasks[d].file_path,
                 mime_type |-> tasks[d].mime_type,
                 doc_metadata |-> NotFoundInfo, status |-> "error"])
    /\ UNCHANGED <<document_contents, analysis_sessions, association, queries, files>>

\* `if not os.path.exists(file_path): return {"status": "error", ...}`: the
\* task ends before the database session is used.
FileNotFound(d) ==
    /\ tasks' = SetTaskState(d, "file_not_found")
    /\ UNCHANGED <<dbVars, files>>

\* The task's return value is dropped by the background runner; tasks[d].state
\* keeps it.  raced: something else removes the file between os.path.exists
\* of the service and os.path.exists of the processor.
process_document(d, raced, env, commitOk) ==
    /\ d \in DOMAIN tasks
    /\ tasks[d].state = "pending"
    /\ LET task == tasks[d] IN
       IF ~Exists(files, task.file_path)
       THEN FileNotFound(d)
       ELSE LET fs == IF raced THEN RemoveFile(files, task.file_path) ELSE files
                document_info == ExtractDocument(fs, task.file_path, env)
                extracted_text == NormalizeText(document_info)
            IN /\ files' = ExtractFiles(fs, task.file_path, document_info)
               /\ CommitDocument(d, DocumentRow(task, document_info),
                                 ContentRow(extracted_text), commitOk)
               /\ tasks' = SetTaskState(d, IF Committed(d, commitOk)
                                           THEN "success" ELSE "error")
    /\ UNCHANGED <<clock, nextId, uploadResp, answer, urlResp>>

----------------------------------------------------------------------------
(* GET /api/documents/{document_id}: DocumentService.get_document *)

\* DocumentService.document_exists
document_exists(d) == d \in DOMAIN documents

\* None without a Document row, otherwise the row joined with its content row
\* (extracted_text is None without one).  A read: it changes nothing.
get_document(d) ==
    IF d \notin DOMAIN documents
    THEN [found |-> FALSE, status |-> "none", has_content |-> FALSE,
          extracted_text |-> EmptyText]
    ELSE [found |-> TRUE, status |-> documents[d].status,
          has_content |-> d \in DOMAIN document_contents,
          extracted_text |-> IF d \in DOMAIN document_contents
                             THEN document_contents[d].extracted_text
                             ELSE EmptyText]

----------------------------------------------------------------------------
(* DELETE /api/documents/{document_id} *)

SessionsOf(D) == {s \in DOMAIN analysis_sessions : \E d \in D : <<d, s>> \in association}
DocumentsOf(S) == {d \in DOMAIN documents : \E s \in S : <<d, s>> \in association}

\* Session.delete(document) follows every relationship whose cascade includes
\* "delete": Document.analysis_sessions (cascade="all, delete") reaches the
\* sessions of the document, AnalysisSession.documents (cascade="all") reaches
\* their documents, and so on until nothing new is reached.
RECURSIVE CascadeDocuments(_)
CascadeDocuments(D) ==
    LET more == D \cup DocumentsOf(SessionsOf(D)) IN
    IF more = D THEN D ELSE CascadeDocuments(more)

CascadeSessions(d) == SessionsOf(CascadeDocuments({d}))

Restrict(f, keep) == [k \in DOMAIN f \cap keep |-> f[k]]

\* The tables after db.delete(document); db.commit(): without the cascaded
\* documents and their content (Document.content, delete-orphan), without the
\* cascaded sessions and their queries (AnalysisSession.queries,
\* delete-orphan), and without the association rows of either.
DeleteRows(d) ==
    LET goneDocs == CascadeDocuments({d})
        goneSessions == CascadeSessions(d)
    IN /\ documents' = Restrict(documents, DOMAIN documents \ goneDocs)
       /\ document_contents' = Restrict(document_contents, DOMAIN document_contents \ goneDocs)
       /\ analysis_sessions' = Restrict(analysis_sessions, DOMAIN analysis_sessions \ goneSessions)
       /\ association' = {a \in association : a[1] \notin goneDocs /\ a[2] \notin goneSessions}
       /\ queries' = {q \in queries : q.analysis_id \notin goneSessions}

RemoveOutcomes == {"ok", "raises"}

\* The try block around os.remove: the file store afterwards and what was
\* logged.  Only the path read from the deleted row is touched.
RemoveBackingFile(fs, file_path, removal) ==
    IF ~Exists(fs, file_path) THEN [fs |-> fs, log |-> "file_absent"]
    ELSE IF removal = "raises" THEN [fs |-> fs, log |-> "remove_failed"]
    ELSE [fs |-> RemoveFile(fs, file_path), log |-> "file_removed"]

\* Mutant: a removal of the file that raises fails the request.
delete_response_strict(d, commitOk, removal) ==
    IF ~document_exists(d) THEN Response(404, d, "not_found")
    ELSE IF ~commitOk THEN Response(500, d, "commit_failed")
    ELSE IF Exists(files, documents[d].file_path) /\ removal = "raises"
    THEN Response(500, d, "remove_failed")
    ELSE Response(200, d, "none")

\* The response of the router: 404 when DocumentService.delete_document
\* returns False (no row), 500 when its commit raises, 200 when it returns
\* True, which it does whatever the removal of the file did.
delete_response(d, commitOk, removal) ==
    IF ~document_exists(d) THEN Response(404, d, "not_found")
    ELSE IF ~commitOk THEN Response(500, d, "commit_failed")
    ELSE Response(200, d, "none")

\* Without the row nothing happens.  A commit that raises leaves the handler
\* before the file is touched.  Otherwise the rows are gone and the removal of
\* the file is attempted.
delete_document(d, commitOk, removal) ==
    /\ IF ~document_exists(d) \/ ~commitOk
       THEN UNCHANGED <<dbVars, files>>
       ELSE /\ DeleteRows(d)
            /\ files' = RemoveBackingFile(files, documents[d].file_path, removal).fs
    /\ UNCHANGED <<clock, nextId, tasks, uploadResp, answer, urlResp>>

----------------------------------------------------------------------------
(* POST /api/analysis/ *)

IdLists == {<<>>} \cup {<<a>> : a \in RequestIds} \cup {<<a, b>> : a, b \in RequestIds}

\* The try block: the first missing id raises HTTPException(404).  With every
\* id present the handler reads request.query, which AnalysisRequest
\* (document_ids, context) does not have, and passes analysis_id=, which
\* AnalysisSession does not have: an exception before db_session.add.
AnalyzeRaises(document_ids) ==
    IF \E i \in 1..Len(document_ids) : ~document_exists(document_ids[i])
    THEN "HTTPException404"
    ELSE "AttributeError"

\* `except Exception as e: raise HTTPException(status_code=500, ...)`:
\* HTTPException is an Exception, so the 404 of the try block is caught too.
AnalyzeStatus(raised) == IF raised = "none" THEN 200 ELSE 500

\* The response of the router.
analyze_response(document_ids) ==
    LET raised == AnalyzeRaises(document_ids) IN
    Response(AnalyzeStatus(raised), UnknownId, raised)

\* Every path through the handler raises before db_session.add: no table
\* changes.
analyze_documents(document_ids) ==
    /\ AnalyzeRaises(document_ids) # "none"
    /\ UNCHANGED vars

----------------------------------------------------------------------------
(* GET /api/analysis/sessions/{session_id} *)

\* A session id no AnalysisSession row carries.
UnknownSession == 200
SessionRequestIds == SessIds \cup {UnknownSession}

\* AnalysisService.get_session: None without the row, else the row with its
\* documents.  No route calls it.
get_session(s) ==
    IF s \notin DOMAIN analysis_sessions
    THEN [found |-> FALSE, documents |-> {}]
    ELSE [found |-> TRUE, documents |-> DocumentsOf({s})]

\* The try block of the route: `if not session: raise HTTPException(404)`.
GetSessionRaises(s) ==
    IF s \notin DOMAIN analysis_sessions THEN "HTTPException404" ELSE "none"

\* `except Exception as e: raise HTTPException(status_code=500, ...)` around
\* the whole body: the 404 raised inside it is caught.
GetSessionStatus(raised) == IF raised = "none" THEN 200 ELSE 500

\* The response of the route.
get_session_response(s) ==
    LET raised == GetSessionRaises(s) IN
    [code |-> GetSessionStatus(raised), raised |-> raised,
     documents |-> IF raised = "none" THEN DocumentsOf({s}) ELSE {}]

\* A read through a session of its own: nothing is added or committed.
get_analysis_session(s) == UNCHANGED vars

----------------------------------------------------------------------------
(* POST /api/query/ *)

\* request.get("query", ""): absent or empty, or a question.
QueryTexts == {"", "q"}

\* gemini_service.generate_content(prompt) returns a text or raises.
GenOutcomes == {"ok", "raises"}

\* The loop over document_ids stops at the first id get_document does not
\* find: its index, or 0 when every id is found.
FirstMissing(document_ids) ==
    LET missing == {i \in 1..Len(document_ids) : ~get_document(document_ids[i]).found}
    IN IF missing = {} THEN 0
       ELSE CHOOSE i \in missing : \A j \in missing : i <= j

\* The ids get_document was called with, in order.
Lookups(document_ids, query) ==
    IF document_ids = <<>> \/ query = "" THEN <<>>
    ELSE IF FirstMissing(document_ids) = 0 THEN document_ids
    ELSE SubSeq(document_ids, 1, FirstMissing(document_ids))

\* Mutant: the prompt is sent whatever the documents hold.
HasContextAlways(document_ids) == document_ids # <<>>

\* document_context.strip() is non-empty: a block is appended for every
\* document whose extracted_text is neither None nor "".
HasContext(document_ids) ==
    \E i \in 1..Len(document_ids) :
        get_document(document_ids[i]).extracted_text # EmptyText

\* What leaves the try block as an exception.
QueryRaises(document_ids, query, gen) ==
    IF document_ids = <<>> THEN "HTTPException400"
    ELSE IF query = "" THEN "HTTPException400"
    ELSE IF FirstMissing(document_ids) # 0 THEN "HTTPException404"
    ELSE IF HasContext(document_ids) /\ gen = "raises" THEN "GenerationError"
    ELSE "none"

\* `except Exception as e: raise HTTPException(status_code=500, ...)`.
QueryStatus(raised) == IF raised = "none" THEN 200 ELSE 500

\* Number of calls of generate_content.
GenerationCalls(document_ids, query) ==
    IF /\ document_ids # <<>> /\ query # ""
       /\ FirstMissing(document_ids) = 0
       /\ HasContext(document_ids)
    THEN 1 ELSE 0

\* What the handler did and what it answered.
query_response(document_ids, query, gen) ==
    LET raised == QueryRaises(document_ids, query, gen) IN
    [code |-> QueryStatus(raised), raised |-> raised,
     lookups |-> Lookups(document_ids, query),
     calls |-> GenerationCalls(document_ids, query),
     apology |-> raised = "none" /\ ~HasContext(document_ids),
     sources |-> IF raised = "none" THEN document_ids ELSE <<>>]

\* Mutant: the answer is recorded as a Query row.
PersistQueryRow(resp) ==
    /\ queries' = queries \cup {[id |-> 0, analysis_id |-> UnknownSession]}
    /\ UNCHANGED <<documents, document_contents, analysis_sessions, association>>

\* The handler holds no database session (the import of get_db_session is
\* not used) and the reads of get_document add nothing to the service's.
PersistQuery(resp) == UNCHANGED dbVars

query_documents(document_ids, query, gen) ==
    /\ answer' = query_response(document_ids, query, gen)
    /\ PersistQuery(answer')
    /\ UNCHANGED <<files, clock, nextId, tasks, uploadResp, urlResp>>

----------------------------------------------------------------------------
(* The upload folder is a plain directory: something else may remove a file *)

ExternalRemove(path) ==
    /\ Exists(files, path)
    /\ files' = RemoveFile(files, path)
    /\ UNCHANGED <<dbVars, clock, nextId, tasks, uploadResp, answer, urlResp>>

----------------------------------------------------------------------------
(* Specifications *)

\* Inputs an earlier branch of the handler never reads are fixed, so that no
\* step is generated twice.
Upload ==
    \E name \in UploadNames, outcome \in SaveOutcomes :
        /\ IsEmptyFilename(name) => outcome = "ok"
        /\ upload_document(name, outcome)
IngestUrl ==
    \E url \in Urls, reply \in Replies, outcome \in SaveOutcomes :
        /\ ~is_valid_url(url) => (url.base = EmptyName /\ reply.ok /\ reply.cd = EmptyName)
        /\ ~reply.ok => reply.cd = EmptyName
        /\ (~is_valid_url(url) \/ ~reply.ok \/ reply.cd = BlankName) => outcome = "ok"
        /\ (~is_valid_url(url) \/ ~reply.ok \/ reply.cd = BlankName \/ outcome # "ok")
              => reply.content_type = "text/html"
        /\ process_url(url, reply, outcome)
        /\ UNCHANGED urlResp
\* The same call, made by a client that keeps the response it got.
IngestUrlAnswered ==
    \E url \in Urls, reply \in Replies, outcome \in SaveOutcomes :
        /\ ~is_valid_url(url) => (reply.ok /\ reply.cd = EmptyName)
        /\ ~reply.ok => reply.cd = EmptyName
        /\ (~is_valid_url(url) \/ ~reply.ok \/ reply.cd = BlankName) => outcome = "ok"
        /\ process_url(url, reply, outcome)
        /\ urlResp' = url_response(files, nextId, url, reply, clock, outcome)
ProcessDocument(d) ==
    /\ d \in DOMAIN tasks
    /\ tasks[d].state = "pending"
    /\ \E raced \in BOOLEAN, commitOk \in BOOLEAN,
          env \in Envs(ExtractorOf(tasks[d].file_path)) :
            /\ (raced \/ ~Exists(files, tasks[d].file_path)) => env = PlainEnv
            /\ process_document(d, raced, env, commitOk)
DeleteDocument ==
    \E d \in RequestIds, commitOk \in BOOLEAN, removal \in RemoveOutcomes :
        /\ ~document_exists(d) => commitOk
        /\ (~document_exists(d) \/ ~commitOk) => removal = "ok"
        /\ delete_document(d, commitOk, removal)
CreateSession == \E ids \in IdLists : analyze_documents(ids)
FileVanishes == \E path \in DOMAIN files : ExternalRemove(path)
GetSession == \E s \in SessionRequestIds : get_analysis_session(s)
AnswerQuery ==
    \E document_ids \in IdLists, query \in QueryTexts, gen \in GenOutcomes :
        /\ GenerationCalls(document_ids, query) = 0 => gen = "ok"
        /\ document_ids = <<>> => query = "q"
        /\ query_documents(document_ids, query, gen)

Next ==
    \/ Tick
    \/ Upload
    \/ IngestUrl
    \/ \E d \in DocIds : ProcessDocument(d)
    \/ DeleteDocument
    \/ FileVanishes

Spec == Init /\ [][Next]_vars

\* The ingestion alone, with no client deleting.  Starlette runs the
\* background tasks of a response once it was sent: a pending task is not
\* postponed forever.
NextIngest ==
    \/ Tick
    \/ Upload
    \/ IngestUrl
    \/ \E d \in DocIds : ProcessDocument(d)
    \/ FileVanishes

IngestSpec ==
    Init /\ [][NextIngest]_vars /\ \A d \in DocIds : WF_vars(ProcessDocument(d))

\* A database file that already holds rows: every id was uploaded in a second
\* of its own (before the clock of this run) and ingested, and the sessions
\* link any of the documents.
StoredTask(d) ==
    [state |-> "success", file_path |-> UniquePath(0 - d, TxtName),
     file_name |-> TxtName, mime_type |-> get_mime_type(TxtName)]

StoredSessionRow(s) == [summary |-> "Document session", context |-> "ctx"]

InitStored ==
    /\ tasks = [d \in DocIds |-> StoredTask(d)]
    /\ files = [p \in {StoredTask(d).file_path : d \in DocIds} |-> BytesOf(0 - p.ts)]
    /\ documents = [d \in DocIds |->
                      DocumentRow(StoredTask(d), ExtractDocument(files, StoredTask(d).file_path, PlainEnv))]
    /\ document_contents = [d \in DocIds |->
                      ContentRow(NormalizeText(ExtractDocument(files, StoredTask(d).file_path, PlainEnv)))]
    /\ analysis_sessions = [s \in SessIds |-> StoredSessionRow(s)]
    /\ association \in SUBSET (DocIds \X SessIds)
    /\ queries = {[id |-> s - 200, analysis_id |-> s] : s \in SessIds}
    /\ clock \in Seconds
    /\ nextId = MaxUploads + 1
    /\ uploadResp = [d \in DocIds |-> UploadedResponse]
    /\ answer = NoAnswer
    /\ urlResp = NoUrlResponse

NextStored ==
    \/ DeleteDocument
    \/ CreateSession
    \/ GetSession
    \/ FileVanishes

StoredSpec == InitStored /\ [][NextStored]_vars

\* A database of ingested documents that are asked about: the file of any of
\* them may have been gone when its extraction ran (empty text), and every
\* session holds the document of its number.
InitAnswer ==
    /\ tasks = [d \in DocIds |-> StoredTask(d)]
    /\ \E gone \in SUBSET DocIds :
          files = [p \in {StoredTask(d).file_path : d \in DocIds \ gone} |->
                      BytesOf(0 - p.ts)]
    /\ documents = [d \in DocIds |->
                      DocumentRow(StoredTask(d), ExtractDocument(files, StoredTask(d).file_path, PlainEnv))]
    /\ document_contents = [d \in DocIds |->
                      ContentRow(NormalizeText(ExtractDocument(files, StoredTask(d).file_path, PlainEnv)))]
    /\ analysis_sessions = [s \in SessIds |-> StoredSessionRow(s)]
    /\ association = {a \in DocIds \X SessIds : a[2] = 200 + a[1]}
    /\ queries = {[id |-> s - 200, analysis_id |-> s] : s \in SessIds}
    /\ clock = 1
    /\ nextId = MaxUploads + 1
    /\ uploadResp = [d \in DocIds |-> UploadedResponse]
    /\ answer = NoAnswer
    /\ urlResp = NoUrlResponse

\* One accepted upload or URL whose extraction is pending: a file name of
\* every format, with the MIME type guessed from the name (upload_document)
\* or the Content-Type of a reply (process_url).
ExtNames ==
    {[stem |-> "a", ext |-> e] :
        e \in {".txt", ".html", ".pdf", ".docx", ".pptx", ".xlsx", ".eml", ".msg",
               ".png", ".bin"}}
HandedMimes == {get_mime_type(name) : name \in ExtNames}

InitExtract ==
    /\ \E name \in ExtNames, mime_type \in HandedMimes :
          tasks = add_task(<<>>, 1, UniquePath(1, name), name, mime_type)
    /\ files = (tasks[1].file_path :> BytesOf(1))
    /\ documents = <<>>
    /\ document_contents = <<>>
    /\ analysis_sessions = <<>>
    /\ association = {}
    /\ queries = {}
    /\ clock = 1
    /\ nextId = 2
    /\ uploadResp = (1 :> UploadedResponse)
    /\ answer = NoAnswer
    /\ urlResp = NoUrlResponse

NextExtract ==
    \/ \E d \in DocIds : ProcessDocument(d)
    \/ DeleteDocument
    \/ FileVanishes

ExtractSpec == InitExtract /\ [][NextExtract]_vars

\* One accepted upload of a plain-text file with any content of up to MaxLen
\* characters, whose extraction is pending.
Chars == {1, NL, CR}
RECURSIVE Contents(_)
Contents(n) ==
    IF n = 0 THEN {<<>>}
    ELSE Contents(n - 1) \cup
         {Append(c, ch) : c \in {x \in Contents(n - 1) : Len(x) = n - 1}, ch \in Chars}

InitText ==
    /\ tasks = add_task(<<>>, 1, UniquePath(1, TxtName), TxtName, get_mime_type(TxtName))
    /\ \E content \in Contents(MaxLen) : files = (tasks[1].file_path :> content)
    /\ documents = <<>>
    /\ document_contents = <<>>
    /\ analysis_sessions = <<>>
    /\ association = {}
    /\ queries = {}
    /\ clock = 1
    /\ nextId = 2
    /\ uploadResp = (1 :> UploadedResponse)
    /\ answer = NoAnswer
    /\ urlResp = NoUrlResponse

NextText ==
    \/ \E d \in DocIds : ProcessDocument(d)
    \/ FileVanishes

TextSpec == InitText /\ [][NextText]_vars

\* Accepted uploads of emails and PDFs, each stored in a second of its own
\* (before the clock of this run), whose extractions are pending.
ArtifactNames == {[stem |-> "a", ext |-> e] : e \in {".eml", ".pdf"}}

InitArtifact ==
    /\ \E name \in [DocIds -> ArtifactNames] :
          tasks = [d \in DocIds |->
                     PendingTask(UniquePath(0 - d, name[d]), name[d],
                                 get_mime_type(name[d]))]
    /\ files = [p \in {tasks[d].file_path : d \in DocIds} |-> BytesOf(0 - p.ts)]
    /\ documents = <<>>
    /\ document_contents = <<>>
    /\ analysis_sessions = <<>>
    /\ association = {}
    /\ queries = {}
    /\ clock = 1
    /\ nextId = MaxUploads + 1
    /\ uploadResp = [d \in DocIds |-> UploadedResponse]
    /\ answer = NoAnswer
    /\ urlResp = NoUrlResponse

NextArtifact ==
    \/ \E d \in DocIds : ProcessDocument(d)
    \/ FileVanishes

ArtifactSpec == InitArtifact /\ [][NextArtifact]_vars

NextAnswer ==
    \/ AnswerQuery
    \/ DeleteDocument

AnswerSpec == InitAnswer /\ [][NextAnswer]_vars

\* The URL route alone, called by a client that keeps the last response.
NextUrl ==
    \/ Tick
    \/ IngestUrlAnswered
    \/ FileVanishes

UrlSpec == Init /\ [][NextUrl]_vars

----------------------------------------------------------------------------
(* Properties *)

TaskState(d) == IF d \in DOMAIN tasks THEN tasks[d].state ELSE "none"
Stored(d) == d \in DOMAIN documents /\ d \in DOMAIN document_contents
\* The pending task of d runs in this step.
Runs(d) == TaskState(d) = "pending" /\ tasks'[d].state # "pending"

\* C1: in every committed state a Document row with id d exists iff a
\* DocumentContent row with id d exists, and a ProcessDocument that failed
\* (file missing, or rolled back) left neither row.
C1_DocumentIffContent ==
    /\ DOMAIN documents = DOMAIN document_contents
    /\ \A d \in DocIds :
         TaskState(d) \in {"error", "file_not_found"} =>
            d \notin DOMAIN documents /\ d \notin DOMAIN document_contents

\* A rollback happened, and an ingested document was deleted again.
C1_Witness ==
    \E d, e \in DocIds :
        /\ TaskState(d) = "error"
        /\ TaskState(e) = "success" /\ ~Stored(e)

\* C2: a ProcessDocument that finds its path missing leaves every table as it
\* was, with no Document and no DocumentContent row for its id.
C2_MissingFileLeavesDatabase ==
    [][\A d \in DocIds :
          (Runs(d) /\ ~Exists(files, tasks[d].file_path)) =>
             /\ UNCHANGED dbVars
             /\ d \notin DOMAIN documents' /\ d \notin DOMAIN document_contents']_vars

C2_Witness ==
    \E d \in DocIds : TaskState(d) = "file_not_found" /\ ~Stored(d)

\* C3 (as claimed): after a structural failure of ProcessDocument a read of
\* the document by its id shows status error.
C3_FailureRecordedAsError ==
    \A d \in DocIds :
        TaskState(d) \in {"error", "file_not_found"} =>
            get_document(d).found /\ get_document(d).status = "error"

\* C4: the upload or URL call that stored the bytes answers, with the
\* extraction still pending, 200 / status uploaded for an id that no row and no
\* earlier upload carries; nothing that happens to the extraction afterwards
\* changes the response that was sent.
C4_ResponseIndependentOfExtraction ==
    [][\A d \in DocIds :
          /\ (d \notin DOMAIN uploadResp /\ d \in DOMAIN uploadResp') =>
                /\ uploadResp'[d] = UploadedResponse
                /\ TaskState(d) = "none" /\ tasks'[d].state = "pending"
                /\ d \notin DOMAIN documents /\ d \notin DOMAIN document_contents
                /\ UNCHANGED dbVars
          /\ d \in DOMAIN uploadResp =>
                d \in DOMAIN uploadResp' /\ uploadResp'[d] = uploadResp[d]]_vars

\* The same response stands after a success, a rollback and a missing file.
C4_Witness ==
    \E d, e \in DocIds :
        /\ TaskState(d) = "file_not_found" /\ uploadResp[d] = UploadedResponse
        /\ TaskState(e) \in {"success", "error"} /\ uploadResp[e] = UploadedResponse

\* C5 (as claimed): once the upload call has returned the id, GetDocument on
\* that id finds a Document row, also while the extraction is still pending.
C5_DocumentExistsOnceAccepted ==
    \A d \in DocIds : TaskState(d) = "pending" => get_document(d).found

\* C5 (amended): the Document row is created by the background
\* ProcessDocument, in the commit that creates its DocumentContent.  While the
\* task of an accepted upload is pending GetDocument finds no row; a row that
\* GetDocument finds belongs to a task that succeeded and comes with its
\* content; and the step in which a task succeeds is the step from which
\* GetDocument finds the row.
C5_RowCreatedByProcessDocument ==
    /\ [](\A d \in DocIds :
            /\ TaskState(d) = "pending" =>
                  d \in DOMAIN uploadResp /\ ~get_document(d).found
            /\ get_document(d).found =>
                  TaskState(d) = "success" /\ get_document(d).has_content)
    /\ [][\A d \in DocIds :
             (Runs(d) /\ tasks'[d].state = "success") =>
                (~document_exists(d) /\ d \in DOMAIN documents')]_vars

\* One upload is still pending, without a row; another was ingested.
C5_Witness ==
    \E d, e \in DocIds :
        /\ TaskState(d) = "pending" /\ ~get_document(d).found
        /\ TaskState(e) = "success" /\ get_document(e).found

\* C6: with no client deleting, the ProcessDocument of every accepted upload
\* eventually ends (an accepted upload stays accepted and an ended task stays
\* ended, so this is: again and again no accepted upload is pending); when
\* it ends with the file found and the commit accepted, it ends in success,
\* and an id whose task succeeded carries its Document row and its
\* DocumentContent row from then on (the tables are keyed by id: a row is
\* there once or not at all).
C6_EventuallyStoredOnce ==
    /\ []<>(\A d \in DocIds :
               d \in DOMAIN uploadResp => TaskState(d) \notin {"none", "pending"})
    /\ [][\A d \in DocIds :
             (Runs(d) /\ Exists(files, tasks[d].file_path)) =>
                /\ tasks'[d].state \in {"success", "error"}
                /\ tasks'[d].state = "error" <=> UNCHANGED dbVars]_vars
    /\ [](\A d \in DocIds : TaskState(d) = "success" => Stored(d))

\* Two uploads of the same second and name were both ingested.
C6_Witness ==
    \E d, e \in DocIds :
        /\ d # e
        /\ TaskState(d) = "success" /\ TaskState(e) = "success"
        /\ tasks[d].file_path = tasks[e].file_path
        /\ Stored(d) /\ Stored(e)

\* C7: a successful extraction leaves the Document with status uploaded, and
\* every Document row has status uploaded or error (never analyzed).
C7_StatusNeverAnalyzed ==
    /\ \A d \in DOMAIN documents : documents[d].status \in {"uploaded", "error"}
    /\ \A d \in DocIds :
         (TaskState(d) = "success" /\ d \in DOMAIN documents) =>
            documents[d].status = "uploaded"

C7_Witness ==
    \E d \in DocIds : TaskState(d) = "success" /\ Stored(d)

\* C8 (as claimed): no step deletes an AnalysisSession or touches its queries;
\* a session only loses the association rows of a deleted document.
C8_DeleteKeepsSessions ==
    [][/\ DOMAIN analysis_sessions' = DOMAIN analysis_sessions
       /\ queries' = queries
       /\ \A a \in association : a[1] \in DOMAIN documents' => a \in association']_vars

\* C9: a DeleteDocument whose commit is accepted removes the rows and answers
\* 200 also when the backing file is absent or its removal raises; a
\* DeleteDocument whose commit raises has not touched the file.
C9_FileRemovalFailureIsSwallowed ==
    [][\A d \in DocIds, removal \in RemoveOutcomes :
          /\ (document_exists(d) /\ delete_document(d, TRUE, removal)) =>
                /\ d \notin DOMAIN documents' /\ d \notin DOMAIN document_contents'
                /\ delete_response(d, TRUE, removal).code = 200
                /\ (removal = "raises" => files' = files)
          /\ (document_exists(d) /\ delete_document(d, FALSE, removal)) =>
                /\ files' = files
                /\ delete_response(d, FALSE, removal).code = 500]_vars

\* A document was deleted and its backing file, with its bytes, is still there.
C9_Witness ==
    \E d \in DocIds :
        /\ TaskState(d) = "success" /\ ~Stored(d)
        /\ Exists(files, tasks[d].file_path)
        /\ files[tasks[d].file_path] = BytesOf(d)

\* C10 (as claimed): CreateSession with an id that resolves to no Document
\* answers not found (404).
C10_MissingDocumentIsNotFound ==
    \A ids \in IdLists :
        (\E i \in 1..Len(ids) : ~document_exists(ids[i])) =>
            analyze_response(ids).code = 404

\* C11 (as claimed): CreateSession with ids that all resolve to Documents
\* succeeds (200) and has a new AnalysisSession to commit.
C11_SessionCreatedForExistingDocuments ==
    \A ids \in IdLists :
        (\A i \in 1..Len(ids) : document_exists(ids[i])) =>
            /\ AnalyzeRaises(ids) = "none"
            /\ analyze_response(ids).code = 200

\* C12 (as claimed): GetSession on an id without an AnalysisSession row
\* answers not found (404), not an internal error.
C12_MissingSessionIsNotFound ==
    \A s \in SessionRequestIds :
        s \notin DOMAIN analysis_sessions => get_session_response(s).code = 404

\* C13 (as claimed): AnswerQuery with an empty id list or an empty question
\* answers invalid argument (400).
C13_EmptyQueryIsInvalidArgument ==
    answer.raised = "HTTPException400" => answer.code = 400

\* C14 (as claimed): AnswerQuery with an id that resolves to no Document
\* answers not found (404).
C14_MissingDocumentQueryIsNotFound ==
    answer.raised = "HTTPException404" => answer.code = 404

\* Every requested id carries a Document row.
AllExist(ids) == \A i \in 1..Len(ids) : ids[i] \in DOMAIN documents
\* No requested document has a non-empty extracted text.
NoText(ids) ==
    \A i \in 1..Len(ids) :
        ids[i] \in DOMAIN document_contents =>
            document_contents[ids[i]].extracted_text = EmptyText

\* C15: an AnswerQuery with a question and a non-empty list of existing
\* documents, none of which has non-empty text, answers 200 with the apology
\* and the requested documents as sources and does not call the generation;
\* with a text in at least one of them it calls the generation exactly once
\* and does not apologise.
C15_ApologyWithoutGeneration ==
    [][\A ids \in IdLists, gen \in GenOutcomes :
          (ids # <<>> /\ AllExist(ids) /\ query_documents(ids, "q", gen)) =>
             IF NoText(ids)
             THEN /\ answer'.code = 200 /\ answer'.apology
                  /\ answer'.sources = ids
                  /\ answer'.calls = 0
             ELSE /\ answer'.calls = 1 /\ ~answer'.apology
                  /\ (answer'.code = 200 => answer'.sources = ids)]_vars

\* The apology was given for two different documents with empty text.
C15_Witness ==
    /\ answer.apology /\ answer.code = 200 /\ answer.calls = 0
    /\ Len(answer.sources) = 2 /\ answer.sources[1] # answer.sources[2]

\* C16: an AnswerQuery, whatever it answers, leaves the five tables (and the
\* upload folder) as they were.
C16_QueryLeavesTables ==
    [][\A ids \in IdLists, query \in QueryTexts, gen \in GenOutcomes :
          query_documents(ids, query, gen) => UNCHANGED <<dbVars, files>>]_vars

\* A generated answer was given, and the tables still hold rows.
C16_Witness ==
    /\ answer.code = 200 /\ answer.calls = 1
    /\ queries # {} /\ DOMAIN documents # {} /\ DOMAIN analysis_sessions # {}

\* The extraction result stored with the Document of d.
InfoOf(d) == documents[d].doc_metadata

\* C17 (as claimed): the extractor that ran on a document is the one of the
\* MIME type handed to the ingestion and stored as Document.mime_type.
C17_ExtractorOfStoredMime ==
    \A d \in DOMAIN documents :
        InfoOf(d).extractor # "none" =>
            InfoOf(d).extractor = Extractor(documents[d].mime_type)

\* The structured fields an extractor assigns before its later steps run.
EarlyFields(extractor) ==
    CASE extractor = "pdf" -> {"page_count"}
      [] extractor = "docx" -> {"text_content", "paragraph_count"}
      [] extractor = "email" -> {"headers"}
      [] OTHER -> {}
FormatError(extractor) ==
    CASE extractor = "pdf" -> "text_extraction_error"
      [] extractor = "docx" -> "docx_extraction_error"
      [] extractor = "pptx" -> "pptx_extraction_error"
      [] extractor = "xlsx" -> "xlsx_extraction_error"
      [] extractor = "email" -> "email_extraction_error"
      [] OTHER -> "none"
PdfImageFields == {"extracted_images", "num_images_extracted"}

C19_PdfStepsIndependent ==
    [][\A d \in DocIds :
          (/\ d \in DOMAIN tasks /\ Exists(files, tasks[d].file_path)
           /\ ExtractorOf(tasks[d].file_path) = "pdf") =>
             \A env \in Envs("pdf") :
                process_document(d, FALSE, env, TRUE) =>
                   LET info == documents'[d].doc_metadata
                   IN /\ info.base /\ ~info.error
                      /\ tasks'[d].state = "success"
                      /\ d \in DOMAIN document_contents'
                      /\ "text_extraction_error" \in info.errors
                            <=> env.parse \in {"raises", "raises_late"}
                      /\ "image_extraction_error" \in info.errors
                            <=> env.render = "raises"
                      /\ env.render = "ok" => PdfImageFields \subseteq info.fields
                      /\ env.parse = "ok" =>
                            {"page_count", "text_content"} \subseteq info.fields]_vars

\* A PDF whose text step failed is stored with the fields of the rendering.
C19_Witness ==
    \E d \in DOMAIN documents :
        /\ InfoOf(d).extractor = "pdf" /\ InfoOf(d).base
        /\ "text_extraction_error" \in InfoOf(d).errors
        /\ PdfImageFields \subseteq InfoOf(d).fields
        /\ d \in DOMAIN document_contents

\* C20: save_uploaded_file with an empty or whitespace-only filename raises
\* the ValueError of the filename check and writes nothing; the upload (or
\* URL) call it belongs to writes no file, answers no document id, schedules
\* no extraction and changes no table.
C20_EmptyFilenameRejected ==
    [][/\ \A name \in {EmptyName, BlankName} :
             upload_document(name, "ok") =>
                /\ save_uploaded_file(files, BytesOf(nextId), name, clock, "ok").error
                      = "empty_filename"
                /\ upload_response(files, nextId, name, clock, "ok").error = "empty_filename"
                /\ files' = files /\ tasks' = tasks /\ uploadResp' = uploadResp
                /\ UNCHANGED dbVars
       /\ \A url \in Urls, reply \in Replies :
             (/\ is_valid_url(url) /\ reply.ok /\ reply.cd = BlankName
              /\ process_url(url, reply, "ok")) =>
                /\ url_response(files, nextId, url, reply, clock, "ok").error
                      = "empty_filename"
                /\ files' = files /\ tasks' = tasks /\ uploadResp' = uploadResp
                /\ nextId' = nextId
                /\ UNCHANGED dbVars]_vars

\* Uploads drew both ids, and nothing was written, answered or scheduled.
C20_Witness ==
    /\ nextId = MaxUploads + 1
    /\ files = <<>> /\ tasks = <<>> /\ uploadResp = <<>>
    /\ documents = <<>>

\* C21 (as claimed): the artifacts listed in the results of two documents
\* that were extracted from different stored files have different paths.
C21_ArtifactNamesDistinct ==
    \A d, e \in DOMAIN documents :
        documents[d].file_path # documents[e].file_path =>
            InfoOf(d).artifacts \cap InfoOf(e).artifacts = {}

\* C22: a URL ingestion of a URL without a scheme or without a host is
\* answered with the invalid-URL error, whatever the server behind the URL
\* would reply (nothing is fetched), and the call writes no file, draws no
\* document id, schedules no extraction and changes no table.
C22_InvalidUrlRejected ==
    /\ [](\A url \in Urls, reply \in Replies, outcome \in SaveOutcomes :
             (~url.scheme \/ ~url.netloc) =>
                url_response(files, nextId, url, reply, clock, outcome)
                   = Response(422, UnknownId, "invalid_url"))
    /\ [][\A url \in Urls, reply \in Replies, outcome \in SaveOutcomes :
             ((~url.scheme \/ ~url.netloc) /\ process_url(url, reply, outcome)) =>
                /\ files' = files /\ nextId' = nextId
                /\ tasks' = tasks /\ uploadResp' = uploadResp
                /\ UNCHANGED dbVars]_vars
    /\ [][(urlResp'.error = "invalid_url" /\ urlResp.error # "invalid_url") =>
             UNCHANGED <<files, nextId, tasks, uploadResp, dbVars>>]_vars

\* The first call of the client was rejected for its URL: nothing was stored,
\* drawn or scheduled.
C22_Witness ==
    /\ urlResp = Response(422, UnknownId, "invalid_url")
    /\ files = <<>> /\ tasks = <<>> /\ nextId = 1 /\ documents = <<>>

\* C23 (as claimed): an ingested plain-text file is stored with the text
\* that was read, and a text that ends in a newline has a line_count equal to
\* its number of newline characters ("line1\nline2\n": 2).
C23_LineCountIsNumberOfLines ==
    \A d \in DOMAIN documents :
        (InfoOf(d).extractor = "text" /\ "line_count" \in InfoOf(d).fields) =>
            LET content == InfoOf(d).text IN
            /\ d \in DOMAIN document_contents
                  => document_contents[d].extracted_text = content
            /\ (content # <<>> /\ content[Len(content)] = NL) =>
                  InfoOf(d).line_count = CountNewlines(content)

\* C24: a ProcessDocument of one id, whether it commits, rolls back or
\* finds its file missing, leaves the rows of every other id as they were
\* (none discarded, none altered, none created) and leaves every other
\* pending task pending; and a pending task can always run, whatever the
\* other tasks did before it.
C24_IngestionsIndependent ==
    /\ [][\A d \in DocIds :
             Runs(d) =>
                \A e \in DocIds \ {d} :
                   /\ e \in DOMAIN documents' <=> e \in DOMAIN documents
                   /\ e \in DOMAIN document_contents' <=> e \in DOMAIN document_contents
                   /\ e \in DOMAIN documents => documents'[e] = documents[e]
                   /\ e \in DOMAIN document_contents =>
                         document_contents'[e] = document_contents[e]
                   /\ TaskState(e) = "pending" => tasks'[e] = tasks[e]]_vars
    /\ [](\A e \in DocIds : TaskState(e) = "pending" => ENABLED ProcessDocument(e))

\* The commit of one task was rolled back after the other task had committed
\* its rows, which are still there.
C24_Witness ==
    \E d, e \in DocIds :
        /\ d > e
        /\ TaskState(d) = "error"
        /\ TaskState(e) = "success" /\ Stored(e)

\* C25: the text stored for a document is taken from its extraction result
\* by the first of these that the result has: the text_content key as it is
\* (also in the result of a PDF); the slide texts with a blank line between
\* them; the sheets, each as its header line and its rows of tab-separated
\* cells with None as the empty text; the email body; for a result with the
\* base metadata of a PDF the fallback note; and the empty text otherwise.
C25_NormalizationPriority ==
    \A d \in DOMAIN documents \cap DOMAIN document_contents :
        LET info == InfoOf(d)
            bytes == BytesOf(d)
            extracted_text == document_contents[d].extracted_text
        IN IF "text_content" \in info.fields THEN extracted_text = info.text
           ELSE IF "slides" \in info.fields
           THEN extracted_text = bytes \o <<NL, NL>>
           ELSE IF "sheets" \in info.fields
           THEN extracted_text = <<83>> \o bytes \o <<NL>> \o bytes \o <<TAB, NL>>
           ELSE IF "body" \in info.fields THEN extracted_text = info.text
           ELSE IF info.base /\ info.mime_type = "application/pdf"
           THEN extracted_text = PdfFallbackText
           ELSE extracted_text = EmptyText

\* A PDF with a text layer is stored with its text, not with the note.
C25_Witness ==
    \E d \in DOMAIN documents \cap DOMAIN document_contents :
        /\ InfoOf(d).base /\ InfoOf(d).mime_type = "application/pdf"
        /\ "text_content" \in InfoOf(d).fields
        /\ document_contents[d].extracted_text = BytesOf(d)
        /\ document_contents[d].extracted_text # PdfFallbackText

\* C26 (as claimed): the filename a URL ingestion derives (Content-Disposition
\* filename, else basename of the URL path, else {host}_{timestamp}.html) is
\* never empty, so that no URL ingestion is rejected by the filename check of
\* save_uploaded_file.
C26_UrlFilenameNeverRejected ==
    urlResp.error # "empty_filename"

\* C27 (as claimed): a DeleteDocument of one id deletes no Document row and
\* no DocumentContent row of another id.
C27_DeleteRemovesOnlyThatDocument ==
    [][\A d \in DocIds, commitOk \in BOOLEAN, removal \in RemoveOutcomes :
          delete_document(d, commitOk, removal) =>
             \A e \in DocIds \ {d} :
                /\ e \in DOMAIN documents => e \in DOMAIN documents'
                /\ e \in DOMAIN document_contents => e \in DOMAIN document_contents']_vars

\* C28 (as claimed): the text stored for a document id was read from the
\* bytes of the upload that was issued that id (or is empty): never from the
\* bytes of another upload.
C28_TextFromOwnBytes ==
    \A d \in DOMAIN document_contents :
        document_contents[d].extracted_text \in {EmptyText, ReadText(BytesOf(d))}

\* C29 (as claimed): a DeleteDocument takes from the upload folder no file
\* that a remaining Document row points at: a row that is there after the
\* delete and whose file was there before it still has its file.
C29_DeleteKeepsOtherFiles ==
    [][\A d \in DocIds, commitOk \in BOOLEAN, removal \in RemoveOutcomes :
          delete_document(d, commitOk, removal) =>
             \A e \in DOMAIN documents' :
                Exists(files, documents[e].file_path) =>
                   Exists(files', documents'[e].file_path)]_vars

\* C30: a ProcessDocument that found its file and whose extraction returned
\* a top-level error alone (the file was gone when the extractor looked for
\* it, or the extractor's outer handler caught a failure and returned the
\* error with the path) goes on to its commit: when the commit is accepted
\* the task succeeds, the Document is stored with status uploaded and that
\* result as its metadata, and the DocumentContent with the empty text.
C30_ErrorOnlyExtractionIsStored ==
    [][\A d \in DocIds :
          (d \in DOMAIN tasks /\ Exists(files, tasks[d].file_path)) =>
             \A raced \in BOOLEAN, env \in Envs(ExtractorOf(tasks[d].file_path)) :
                LET path == tasks[d].file_path
                    fs == IF raced THEN RemoveFile(files, path) ELSE files
                    info == ExtractDocument(fs, path, env)
                IN (/\ info.error /\ info.fields = {} /\ info.errors = {}
                    /\ process_document(d, raced, env, TRUE)) =>
                      /\ tasks'[d].state = "success"
                      /\ d \in DOMAIN documents' /\ d \in DOMAIN document_contents'
                      /\ documents'[d].status = "uploaded"
                      /\ documents'[d].doc_metadata = info
                      /\ documents'[d].doc_metadata.error
                      /\ document_contents'[d].extracted_text = EmptyText]_vars

\* A document whose file vanished between the two existence checks is
\* stored, as uploaded, with the error and without text.
C30_Witness ==
    \E d \in DOMAIN documents \cap DOMAIN document_contents :
        /\ TaskState(d) = "success"
        /\ InfoOf(d) = NotFoundInfo
        /\ documents[d].status = "uploaded"
        /\ document_contents[d].extracted_text = EmptyText
        /\ ~Exists(files, documents[d].file_path)

====
